---------------------------- MODULE Spec2Model ----------------------------
(***************************************************************************)
(* A model of pdm's candidate / environment core:                          *)
(*   src/pdm/models/candidates.py   (Candidate, identify)                  *)
(*   src/pdm/models/environment.py  (Environment, WorkingSet)              *)
(*                                                                         *)
(* Python strings whose characters matter (requires_python) are sequences  *)
(* of one-character strings; names, versions and urls are atomic strings.  *)
(***************************************************************************)
EXTENDS Integers, Sequences, FiniteSets, TLC

VARIABLES
    cand,       \* the Candidate object (with its Requirement and its ireq)
    calls,      \* number of Candidate.get_metadata calls so far
    builds,     \* number of Environment.build invocations so far
    ret         \* what the last Candidate operation returned or raised

VARIABLES
    pair,       \* two Candidate objects, compared with == and hash()
    cmp         \* the results of the last comparison of the two

VARIABLES
    idIn,       \* two arguments of identify(): requirements or candidates
    idOut       \* the keys identify() returned for them

VARIABLES
    host,       \* the machine: interpreters on it and the versions they report
    config,     \* the project configuration (config["python"]) and its saves
    cached,     \* the memoized Environment.python_executable, once computed
    pyRet       \* what the last access of python_executable did

VARIABLES
    environ,    \* os.environ: PYTHONPATH and PATH
    hooks,      \* the patched globals of pkg_resources, misc and req_uninstall
    stack,      \* the activation scopes that are open, innermost last
    lastExit    \* the process state before and after the last scope closed

VARIABLES
    dist,       \* the dependency map of a built editable distribution
    lru,        \* the lru_cache of get_requirements_from_dist for it
    distRet     \* what the last get_dependencies_from_metadata call did

VARIABLES
    packages,   \* the memoized Environment.packages_path, once computed
    markers,    \* the memoized Environment.marker_environment, once computed
    dirs,       \* the directories that exist on disk
    envRet      \* what the last access of an Environment attribute did

VARIABLES
    site,       \* the distributions found under the isolated library path
    ws,         \* the WorkingSet built over that path, once constructed
    wsRet       \* what the last operation on the WorkingSet did

candVars == <<cand, calls, builds, ret>>
pairVars == <<pair, cmp>>
idVars == <<idIn, idOut>>
pyVars == <<host, config, cached, pyRet>>
actVars == <<environ, hooks, stack, lastExit>>
distVars == <<dist, lru, distRet>>
envVars == <<packages, markers, dirs, envRet>>
wsVars == <<site, ws, wsRet>>
vars == <<cand, calls, builds, ret, pair, cmp, idIn, idOut,
          host, config, cached, pyRet, environ, hooks, stack, lastExit,
          dist, lru, distRet, packages, markers, dirs, envRet,
          site, ws, wsRet>>

(***************************************************************************)
(* Bounds.                                                                 *)
(***************************************************************************)
MaxCalls == 3
MaxSections == 1
MaxExtras == 2
MaxInstalled == 2
MaxDepth == 2
MaxKeys == 3
MaxDists == 2

(***************************************************************************)
(* Python values.                                                          *)
(***************************************************************************)
\* None, for an Optional[str] attribute held as an atomic string.
None == "<None>"
\* None, for an Optional[str] attribute held as a sequence of characters.
NoStr == <<"<None>">>
\* The empty string, as a sequence of characters.
Empty == <<>>

Range(s) == {s[i] : i \in DOMAIN s}

Digits == <<"0", "1", "2", "3", "4", "5", "6", "7", "8", "9">>

DigitVal(ch) == (CHOOSE i \in 1..10 : Digits[i] = ch) - 1

\* str.isdigit(): non-empty and every character a digit.
isdigit(s) == s # Empty /\ \A i \in DOMAIN s : s[i] \in Range(Digits)

\* int(s) for a string of digits.
RECURSIVE int(_)
int(s) ==
    IF s = Empty THEN 0
    ELSE int(SubSeq(s, 1, Len(s) - 1)) * 10 + DigitVal(s[Len(s)])

\* format of a non-negative integer in an f-string.
RECURSIVE IntToStr(_)
IntToStr(n) ==
    IF n < 10 THEN <<Digits[n + 1]>>
    ELSE IntToStr(n \div 10) \o <<Digits[(n % 10) + 1]>>

\* str(x) of an Optional[str]: str(None) is the four characters "None".
PyStr(x) == IF x = None THEN "None" ELSE x


\* Python truthiness of an Optional[str].
Truthy(x) == x # None /\ x # ""

(***************************************************************************)
(* Links (pip's Link).  Link equality compares the url alone.              *)
(***************************************************************************)
NoLink == [url |-> None, requires_python |-> NoStr, is_wheel |-> FALSE]

Link(url, requires_python, is_wheel) ==
    [url |-> url, requires_python |-> requires_python, is_wheel |-> is_wheel]

Link_eq(a, b) == a.url = b.url

SdistUrl == "https://host/foo-1.0.tar.gz"
WheelUrl == "https://host/foo-1.0-py3-none-any.whl"

\* Character sequences used as requires_python values.
GE3 == <<">", "=", "3">>
UNKNOWN == <<"U", "N", "K", "N", "O", "W", "N">>

\* The links a package index offers for the named requirement.
IndexLinks ==
    { Link(SdistUrl, NoStr, FALSE),
      Link(WheelUrl, GE3, TRUE),
      Link(WheelUrl, <<"3">>, TRUE) }

(***************************************************************************)
(* Requirements (pdm.models.requirements.Requirement).                     *)
(***************************************************************************)
Kinds == {"named", "localdir", "localfile", "url", "vcs"}

is_named(req) == req.kind = "named"
is_vcs(req) == req.kind = "vcs"
is_local_dir(req) == req.kind = "localdir"

\* req.path / req.str_path: set for the local-path kinds only.
req_path(req) == IF req.kind \in {"localdir", "localfile"} THEN "./pkg" ELSE None

\* req.vcs and req.repo of a version-control requirement.
req_vcs(req) == IF is_vcs(req) THEN "git" ELSE None
req_repo(req) == IF is_vcs(req) THEN "https://host/repo.git" ELSE None

\* req.project_name and req.key follow req.name.
project_name(req) == req.name
key(req) == req.name

(***************************************************************************)
(* identify (lines 58-70).  An argument is a Requirement, or a Candidate   *)
(* whose req is looked at.                                                 *)
(***************************************************************************)
\* sorted() compares names in this order.
NameOrder == <<"a", "b", "c", "d", "default", "dev">>
Rank(x) == CHOOSE i \in DOMAIN NameOrder : NameOrder[i] = x

RECURSIVE Insert(_, _)
Insert(x, s) ==
    IF s = <<>> THEN <<x>>
    ELSE IF Rank(x) <= Rank(s[1]) THEN <<x>> \o s
    ELSE <<s[1]>> \o Insert(x, Tail(s))

RECURSIVE sorted(_)
sorted(seq) == IF seq = <<>> THEN <<>> ELSE Insert(seq[1], sorted(Tail(seq)))

\* ",".join(seq)
RECURSIVE join(_)
join(seq) ==
    IF seq = <<>> THEN ""
    ELSE IF Len(seq) = 1 THEN seq[1]
    ELSE seq[1] \o "," \o join(Tail(seq))

\* An identify that joins the extras in the order given.
identify_unsorted(x) ==
    LET req == x.req
    IN  IF key(req) = None THEN None
        ELSE key(req) \o (IF req.extras # <<>>
                          THEN "[" \o join(req.extras) \o "]" ELSE "")

identify(x) ==
    LET req == x.req
    IN  IF key(req) = None THEN None
        ELSE key(req) \o (IF req.extras # <<>>
                          THEN "[" \o join(sorted(req.extras)) \o "]" ELSE "")

\* The file name a link's url ends with.
filename(link) ==
    CASE link.url = "https://host/foo-1.0-py3-none-any.whl" -> "foo-1.0-py3-none-any.whl"
      [] link.url = "https://host/foo-1.0.tar.gz" -> "foo-1.0.tar.gz"
      [] OTHER -> "pkg"

\* The link req.as_ireq() starts with: none for a named requirement.
as_ireq(req) ==
    IF is_named(req) THEN NoLink
    ELSE Link(req.url, NoStr, req.url = WheelUrl)

Requirements ==
    { [kind |-> "named", name |-> "foo", version |-> v, extras |-> x,
       editable |-> FALSE, url |-> None] :
         v \in {None, "1.0"}, x \in {<<>>, <<"b", "a">>} }
    \cup
    { [kind |-> k, name |-> n, version |-> None, extras |-> <<>>,
       editable |-> e,
       url |-> CASE k = "localdir" -> "file:///pkg"
                 [] k = "localfile" -> "file:///pkg.tar.gz"
                 [] k = "vcs" -> "git+https://host/repo.git"
                 [] OTHER -> u] :
         k \in Kinds \ {"named"}, n \in {None, "foo"}, e \in BOOLEAN,
         u \in {SdistUrl} }
    \cup
    { [kind |-> "url", name |-> n, version |-> None, extras |-> <<>>,
       editable |-> e, url |-> WheelUrl] : n \in {None, "foo"}, e \in BOOLEAN }

(***************************************************************************)
(* Package metadata (distlib Metadata).  style says how requires_python is *)
(* exposed: "new" as an attribute, "legacy" only on metadata._legacy,      *)
(* "bare" on neither.                                                      *)
(***************************************************************************)
NoMeta ==
    [name |-> None, version |-> None, requires_python |-> NoStr, style |-> "none"]

Metas ==
    { [name |-> "foo", version |-> "1.0", requires_python |-> r[1], style |-> r[2]] :
        r \in { <<NoStr, "new">>, <<Empty, "new">>, <<UNKNOWN, "legacy">>,
                <<NoStr, "bare">>, <<<<"3">>, "new">>, <<<<"9">>, "legacy">>,
                <<<<">", "=", "3", ".", "6">>, "new">> } }
    \cup
    { [name |-> "foo", version |-> "2.0", requires_python |-> <<"1", "9">>,
       style |-> "new"] }

(***************************************************************************)
(* Candidate.__init__                                                      *)
(***************************************************************************)
\* `name or self.req.project_name`, `version or self.req.version`
Or(x, y) == IF Truthy(x) THEN x ELSE y

Candidate(req, name, version, link) ==
    [ req |-> req,
      name |-> Or(name, project_name(req)),
      version |-> Or(version, req.version),
      link |-> IF link = NoLink THEN as_ireq(req) ELSE link,
      ireq_link |-> as_ireq(req),
      marker |-> None,
      sections |-> <<>>,
      requires_python_ |-> NoStr,
      revision_ |-> None,
      metadata |-> NoMeta ]

\* Candidate.from_installation_candidate: name, version and link of the index.
from_installation_candidate(name, version, link, req) ==
    Candidate(req, name, version, link)

(***************************************************************************)
(* Environment.build: the steps it takes, the artifact it returns, and the *)
(* link the install request ends with.  found is the link the finder       *)
(* resolves for a request that has none (NoLink: resolution fails); fail   *)
(* names the external step that raises, if any; meta is the metadata of    *)
(* the package behind the link.                                            *)
(***************************************************************************)
BuildFailures == {"none", "unpack", "hash", "builder"}

\* The error each failing step raises.
DistributionNotFound == "DistributionNotFound"
BuildErrors ==
    {DistributionNotFound, "FetchError", "HashMismatch", "BuildBackendError"}

NoArtifact == [kind |-> "none", path |-> None, meta |-> NoMeta]

BuildResult(status, built, link, steps) ==
    [status |-> status, built |-> built, link |-> link, steps |-> steps]

\* No build took place.
NoBuild == BuildResult("none", NoArtifact, NoLink, <<>>)

\* ireq.source_dir as req.as_ireq() leaves it: the checkout itself for an
\* editable local directory, unset for every other request.
source_dir(req) == IF req.editable /\ is_local_dir(req) THEN "/pkg" ELSE None

\* _get_source_dir (lines 215-220): the src directory of the packages root.
get_source_dir == "src"

\* _make_building_args (lines 200-205): an editable request is built where
\* its source is, any other in a fresh temporary directory.
make_building_args(req) ==
    LET src_dir == Or(source_dir(req), get_source_dir)
    IN  [build_dir |-> IF req.editable THEN src_dir ELSE "build",
         src_dir |-> src_dir]

\* A fetch without the test of line 281: every request is downloaded or
\* unpacked.
fetch_steps_unconditional(req, link) ==
    IF link.is_wheel THEN <<"download_wheel">> ELSE <<"unpack_source">>

\* Lines 281-296: the download or unpack step, skipped for an editable
\* local directory; a wheel is downloaded only (only_download).
fetch_steps(req, link) ==
    IF req.editable /\ is_local_dir(req) THEN <<>>
    ELSE IF link.is_wheel THEN <<"download_wheel">>
    ELSE <<"unpack_source">>

\* The error shim_unpack raises for the failure injected, if it raises.
fetch_error(fail) ==
    CASE fail = "unpack" -> "FetchError"
      [] fail = "hash" -> "HashMismatch"
      [] OTHER -> "ok"

\* A build without the return of lines 298-299: a wheel goes to the builder.
build_wheel_through_builder(req, link0, found, fail, meta) ==
    LET link == IF link0 # NoLink THEN link0 ELSE found
        fetch == fetch_steps(req, link)
    IN  IF link = NoLink
        THEN BuildResult(DistributionNotFound, NoArtifact, link, <<"populate_link">>)
        ELSE IF fetch # <<>> /\ fetch_error(fail) # "ok"
        THEN BuildResult(fetch_error(fail), NoArtifact, link,
                         <<"populate_link">> \o fetch)
        ELSE IF fail = "builder"
        THEN BuildResult("BuildBackendError", NoArtifact, link,
                 <<"populate_link">> \o fetch \o
                 <<IF req.editable THEN "EditableBuilder" ELSE "WheelBuilder">>)
        ELSE IF req.editable
        THEN BuildResult("ok",
                 [kind |-> "egg-info",
                  path |-> make_building_args(req).build_dir \o "/foo.egg-info",
                  meta |-> meta],
                 link, <<"populate_link">> \o fetch \o <<"EditableBuilder">>)
        ELSE BuildResult("ok",
                 [kind |-> "wheel",
                  path |-> make_building_args(req).build_dir \o "/foo.whl",
                  meta |-> meta],
                 link, <<"populate_link">> \o fetch \o <<"WheelBuilder">>)

build(req, link0, found, fail, meta) ==
    LET link == IF link0 # NoLink THEN link0 ELSE found
        fetch == fetch_steps(req, link)
    IN  IF link = NoLink
        THEN BuildResult(DistributionNotFound, NoArtifact, link, <<"populate_link">>)
        ELSE IF fetch # <<>> /\ fetch_error(fail) # "ok"
        THEN BuildResult(fetch_error(fail), NoArtifact, link,
                         <<"populate_link">> \o fetch)
        ELSE IF link.is_wheel
        THEN BuildResult("ok",
                 [kind |-> "wheel", path |-> "cache/wheels/" \o filename(link),
                  meta |-> meta],
                 link, <<"populate_link">> \o fetch)
        ELSE IF fail = "builder"
        THEN BuildResult("BuildBackendError", NoArtifact, link,
                 <<"populate_link">> \o fetch \o
                 <<IF req.editable THEN "EditableBuilder" ELSE "WheelBuilder">>)
        ELSE IF req.editable
        THEN BuildResult("ok",
                 [kind |-> "egg-info",
                  path |-> make_building_args(req).build_dir \o "/foo.egg-info",
                  meta |-> meta],
                 link, <<"populate_link">> \o fetch \o <<"EditableBuilder">>)
        ELSE BuildResult("ok",
                 [kind |-> "wheel",
                  path |-> make_building_args(req).build_dir \o "/foo.whl",
                  meta |-> meta],
                 link, <<"populate_link">> \o fetch \o <<"WheelBuilder">>)

\* get_sdist: a distribution for an egg-info directory, None for no directory.
get_sdist(egg_info) == IF Truthy(egg_info.path) THEN egg_info.meta ELSE NoMeta

(***************************************************************************)
(* Candidate.get_metadata                                                  *)
(***************************************************************************)
\* What one call did: the candidate after it, what it returned or raised,
\* and the build b it made (NoBuild for none).
Outcome(c, status, value, nbuilds, b) ==
    [cand |-> c, status |-> status, value |-> value, builds |-> nbuilds,
     steps |-> b.steps, artifact |-> b.built.path, link |-> b.link,
     build_status |-> b.status]

\* Lines 153-158: name and version taken from the metadata where unset, the
\* name written onto the requirement, the link taken from the request.
populated(c, md, link) ==
    LET nm == IF ~Truthy(c.name) THEN md.name ELSE c.name
    IN  [c EXCEPT !.metadata = md,
                  !.name = nm,
                  !.req.name = IF ~Truthy(c.name) THEN nm ELSE @,
                  !.version = IF ~Truthy(c.version) THEN md.version ELSE @,
                  !.link = link]

\* The metadata read from the artifact (lines 147-152).
artifact_metadata(c, built) ==
    IF c.req.editable THEN get_sdist(built) ELSE built.meta

\* Line 142: an editable requirement of an unsupported source kind.
unsupported_editable(req) == req.editable /\ ~is_local_dir(req) /\ ~is_vcs(req)

\* A fresh path that leaves self.link as it was (no line 158).
get_metadata_fresh_keep_link(c, found, fail, meta) ==
    LET b == build(c.req, c.ireq_link, found, fail, meta)
        c1 == [c EXCEPT !.ireq_link = b.link]
    IN  IF b.status # "ok"
        THEN Outcome(c1, b.status, NoMeta, 1, b)
        ELSE IF unsupported_editable(c.req)
        THEN Outcome(c1, "RequirementError", NoMeta, 1, b)
        ELSE LET md == artifact_metadata(c, b.built)
             IN  Outcome(populated(c1, md, c.link), "ok", md, 1, b)

\* A fresh path that answers a failed build with the package's metadata
\* instead of letting the error through.
get_metadata_fresh_swallow(c, found, fail, meta) ==
    LET b == build(c.req, c.ireq_link, found, fail, meta)
        c1 == [c EXCEPT !.ireq_link = b.link]
    IN  IF b.status # "ok"
        THEN Outcome(populated(c1, meta, b.link), "ok", meta, 1, b)
        ELSE IF unsupported_editable(c.req)
        THEN Outcome(c1, "RequirementError", NoMeta, 1, b)
        ELSE LET md == artifact_metadata(c, b.built)
             IN  Outcome(populated(c1, md, b.link), "ok", md, 1, b)

\* Lines 139-159: the path taken when no metadata is cached.
get_metadata_fresh(c, found, fail, meta) ==
    LET b == build(c.req, c.ireq_link, found, fail, meta)
        c1 == [c EXCEPT !.ireq_link = b.link]
    IN  IF b.status # "ok"
        THEN Outcome(c1, b.status, NoMeta, 1, b)
        ELSE IF unsupported_editable(c.req)
        THEN Outcome(c1, "RequirementError", NoMeta, 1, b)
        ELSE LET md == artifact_metadata(c, b.built)
             IN  Outcome(populated(c1, md, b.link), "ok", md, 1, b)

\* A get_metadata that forgets the check of line 137.
get_metadata_uncached(c, found, fail, meta) ==
    get_metadata_fresh(c, found, fail, meta)

get_metadata(c, found, fail, meta) ==
    IF c.metadata # NoMeta
    THEN Outcome(c, "ok", c.metadata, 0, NoBuild)
    ELSE get_metadata_fresh(c, found, fail, meta)

(***************************************************************************)
(* Candidate.requires_python (getter).  consulted lists the sources read.  *)
(***************************************************************************)
RP(status, value, consulted) ==
    [status |-> status, value |-> value, consulted |-> consulted]

\* Lines 203-210: the metadata-declared constraint.
metadata_requires_python(md) ==
    LET raw == CASE md.style = "new" -> md.requires_python
                 [] md.style = "legacy" -> md.requires_python
                 [] OTHER -> UNKNOWN
    IN  IF raw = NoStr \/ raw = Empty \/ raw = UNKNOWN THEN Empty ELSE raw

\* A normalization whose upper bound is N instead of N + 1.
normalize_no_increment(requires_python) ==
    IF isdigit(requires_python)
    THEN <<">", "=">> \o requires_python \o <<",", "<">>
         \o IntToStr(int(requires_python))
    ELSE requires_python

\* Lines 211-212: a bare integer becomes a half-open range.
normalize(requires_python) ==
    IF isdigit(requires_python)
    THEN <<">", "=">> \o requires_python \o <<",", "<">>
         \o IntToStr(int(requires_python) + 1)
    ELSE requires_python

\* A getter that tests the override for truth instead of `is not None`.
requires_python_truthy(c) ==
    IF c.requires_python_ \notin {NoStr, Empty}
    THEN RP("ok", c.requires_python_, {"override"})
    ELSE IF c.link = NoLink
    THEN RP("AttributeError", NoStr, {"link"})
    ELSE
      LET fromLink == IF c.link.requires_python \in {NoStr, Empty}
                      THEN Empty ELSE c.link.requires_python
      IN  IF fromLink = Empty /\ c.metadata # NoMeta
          THEN RP("ok", normalize(metadata_requires_python(c.metadata)),
                  {"link", "metadata"})
          ELSE RP("ok", normalize(fromLink), {"link"})

requires_python(c) ==
    IF c.requires_python_ # NoStr
    THEN RP("ok", c.requires_python_, {"override"})
    ELSE IF c.link = NoLink
    THEN RP("AttributeError", NoStr, {"link"})
    ELSE
      LET fromLink == IF c.link.requires_python \in {NoStr, Empty}
                      THEN Empty ELSE c.link.requires_python
      IN  IF fromLink = Empty /\ c.metadata # NoMeta
          THEN RP("ok", normalize(metadata_requires_python(c.metadata)),
                  {"link", "metadata"})
          ELSE RP("ok", normalize(fromLink), {"link"})

(***************************************************************************)
(* Candidate.as_lockfile_entry.  A dict is a function from keys to tagged  *)
(* Python values.                                                          *)
(***************************************************************************)
PyNone == [t |-> "none", s |-> "", l |-> <<>>, b |-> FALSE]
PyS(x) == IF x = None THEN PyNone ELSE [t |-> "str", s |-> x, l |-> <<>>, b |-> FALSE]
PyL(x) == [t |-> "list", s |-> "", l |-> x, b |-> FALSE]
PyB(x) == [t |-> "bool", s |-> "", l |-> <<>>, b |-> x]

\* bool(v)
PyTruthy(v) ==
    CASE v.t = "none" -> FALSE
      [] v.t = "str" -> v.s # ""
      [] v.t = "list" -> v.l # <<>>
      [] v.t = "bool" -> v.b

\* dict.update
Update(d, e) ==
    [k \in DOMAIN d \cup DOMAIN e |-> IF k \in DOMAIN e THEN e[k] ELSE d[k]]

\* {k: v for k, v in result.items() if v}
DropFalsy(d) == [k \in {x \in DOMAIN d : PyTruthy(d[x])} |-> d[k]]

\* Lines 221-228: the fields every entry starts from.
base_entry(c) ==
    [k \in {"name", "sections", "version", "extras", "marker", "editable"} |->
       CASE k = "name" -> PyS(c.name)
         [] k = "sections" -> PyL(sorted(c.sections))
         [] k = "version" -> PyS(PyStr(c.version))
         [] k = "extras" -> PyL(sorted(c.req.extras))
         [] k = "marker" -> IF Truthy(c.marker) THEN PyS(PyStr(c.marker)) ELSE PyNone
         [] k = "editable" -> PyB(c.req.editable)]

\* A source_entry whose second test is an `if`, not an `elif`.
source_entry_no_elif(c, revision) ==
    LET vcsKeys ==
          IF is_vcs(c.req)
          THEN [k \in {req_vcs(c.req), "revision"} |->
                  IF k = "revision" THEN PyS(revision) ELSE PyS(req_repo(c.req))]
          ELSE [k \in {} |-> PyNone]
        fileKeys ==
          IF ~is_named(c.req)
          THEN IF Truthy(req_path(c.req))
               THEN [k \in {"path"} |-> PyS(req_path(c.req))]
               ELSE [k \in {"url"} |-> PyS(c.req.url)]
          ELSE [k \in {} |-> PyNone]
    IN  Update(vcsKeys, fileKeys)

\* Lines 229-235: the keys of the requirement's source kind.
source_entry(c, revision) ==
    IF is_vcs(c.req)
    THEN [k \in {req_vcs(c.req), "revision"} |->
            IF k = "revision" THEN PyS(revision) ELSE PyS(req_repo(c.req))]
    ELSE IF ~is_named(c.req)
    THEN IF Truthy(req_path(c.req))
         THEN [k \in {"path"} |-> PyS(req_path(c.req))]
         ELSE [k \in {"url"} |-> PyS(c.req.url)]
    ELSE [k \in {} |-> PyNone]

as_lockfile_entry(c, revision) ==
    DropFalsy(Update(base_entry(c), source_entry(c, revision)))

(***************************************************************************)
(* Candidate.revision (lines 127-131), a cached_property: the value the    *)
(* version-control backend reports is stored on the candidate; an access   *)
(* that raises stores nothing.  backend counts the backend invocations.    *)
(***************************************************************************)
Revision(c, status, value, backend) ==
    [cand |-> c, status |-> status, value |-> value, backend |-> backend]

\* A revision that asks the backend whatever the requirement's kind.
revision_unguarded(c, rev) ==
    IF c.revision_ # None
    THEN Revision(c, "ok", c.revision_, 0)
    ELSE Revision([c EXCEPT !.revision_ = rev], "ok", rev, 1)

revision(c, rev) ==
    IF c.revision_ # None
    THEN Revision(c, "ok", c.revision_, 0)
    ELSE IF ~is_vcs(c.req)
    THEN Revision(c, "AttributeError", None, 0)
    ELSE Revision([c EXCEPT !.revision_ = rev], "ok", rev, 1)

\* Line 229: as_lockfile_entry reads self.revision for a VCS requirement.
reads_revision(c) == is_vcs(c.req)

\* One call of as_lockfile_entry, with the revision access it makes.
LockfileCall(c, rev) ==
    IF reads_revision(c)
    THEN LET r == revision(c, rev)
         IN  IF r.status # "ok"
             THEN [cand |-> r.cand, status |-> r.status,
                   entry |-> [k \in {} |-> PyNone], backend |-> r.backend,
                   revision_read |-> TRUE]
             ELSE [cand |-> r.cand, status |-> "ok",
                   entry |-> as_lockfile_entry(c, r.value),
                   backend |-> r.backend, revision_read |-> TRUE]
    ELSE [cand |-> c, status |-> "ok", entry |-> as_lockfile_entry(c, None),
          backend |-> 0, revision_read |-> FALSE]

(***************************************************************************)
(* The life of one candidate.                                              *)
(***************************************************************************)
InitialCandidates ==
    { Candidate(r, None, None, NoLink) : r \in Requirements }
    \cup
    { from_installation_candidate("foo", "1.0", l, r) :
        l \in IndexLinks, r \in {q \in Requirements : is_named(q)} }
    \cup
    { Candidate(r, "foo", None, NoLink) :
        r \in {q \in Requirements : q.name = None} }

NoRet ==
    [op |-> "none", status |-> "none", meta |-> NoMeta, str |-> NoStr,
     consulted |-> {}, entry |-> [k \in {} |-> PyNone], built |-> 0,
     steps |-> <<>>, before |-> NoMeta, backend |-> 0, revision_read |-> FALSE,
     artifact |-> None, link |-> NoLink, build_status |-> "none",
     fail |-> "none",
     was |-> [name |-> None, version |-> None, link |-> NoLink,
              req_name |-> None]]

\* The metadata of a package that declares no requires_python.
PlainMeta ==
    [name |-> "foo", version |-> "1.0", requires_python |-> NoStr, style |-> "new"]

\* What the outside world can answer to one build of candidate c: the link
\* the finder resolves (asked only when the request has none), the step that
\* fails, the metadata of the package (one package stands for all when a
\* step is to fail).  Nothing is asked once c is built.
BuildInputs(c) ==
    IF c.metadata # NoMeta
    THEN {<<NoLink, "none", NoMeta>>}
    ELSE { in \in (IF c.ireq_link = NoLink THEN IndexLinks \cup {NoLink}
                   ELSE {NoLink}) \X BuildFailures \X Metas :
             in[2] = "none" \/ in[3] = PlainMeta }

\* A caller calls candidate.get_metadata(); the package built is one of
\* metas.
GetMetadataAmong(metas) ==
    /\ calls < MaxCalls
    /\ \E in \in {x \in BuildInputs(cand) : x[3] \in metas \cup {NoMeta}} :
         LET o == get_metadata(cand, in[1], in[2], in[3])
         IN  /\ cand' = o.cand
             /\ builds' = builds + o.builds
             /\ ret' = [NoRet EXCEPT !.op = "get_metadata", !.status = o.status,
                                     !.meta = o.value, !.built = o.builds,
                                     !.steps = o.steps,
                                     !.before = cand.metadata,
                                     !.artifact = o.artifact,
                                     !.link = o.link,
                                     !.build_status = o.build_status,
                                     !.fail = IF o.build_status \in BuildErrors
                                              THEN in[2] ELSE "none",
                                     !.was = [name |-> cand.name,
                                              version |-> cand.version,
                                              link |-> cand.link,
                                              req_name |-> cand.req.name]]
    /\ calls' = calls + 1
    /\ UNCHANGED <<pairVars, idVars, pyVars, actVars, distVars, envVars, wsVars>>

GetMetadata == GetMetadataAmong(Metas)

\* A caller reads candidate.requires_python.
GetRequiresPython ==
    /\ LET r == requires_python(cand)
       IN  ret' = [NoRet EXCEPT !.op = "requires_python", !.status = r.status,
                                !.str = r.value, !.consulted = r.consulted]
    /\ UNCHANGED <<cand, calls, builds>>
    /\ UNCHANGED <<pairVars, idVars, pyVars, actVars, distVars, envVars, wsVars>>

\* The resolver assigns candidate.requires_python (lines 215-217).
SetRequiresPython ==
    /\ \E value \in {Empty, <<"3">>, UNKNOWN} :
         cand' = [cand EXCEPT !.requires_python_ = value]
    /\ ret' = NoRet
    /\ UNCHANGED <<calls, builds>>
    /\ UNCHANGED <<pairVars, idVars, pyVars, actVars, distVars, envVars, wsVars>>

\* The resolver tags the candidate with a marker or a section.
SetMarker ==
    /\ \E m \in {None, "os_name == 'nt'"} : cand' = [cand EXCEPT !.marker = m]
    /\ ret' = NoRet
    /\ UNCHANGED <<calls, builds>>
    /\ UNCHANGED <<pairVars, idVars, pyVars, actVars, distVars, envVars, wsVars>>

AddSection ==
    /\ Len(cand.sections) < MaxSections
    /\ \E sec \in {"default", "dev"} :
         cand' = [cand EXCEPT !.sections = Append(@, sec)]
    /\ ret' = NoRet
    /\ UNCHANGED <<calls, builds>>
    /\ UNCHANGED <<pairVars, idVars, pyVars, actVars, distVars, envVars, wsVars>>

\* The revision the version-control backend reports for a checkout.
Revisions == {"1a2b3c"}

\* A caller calls candidate.as_lockfile_entry().
AsLockfileEntry ==
    /\ \E rev \in Revisions :
         LET o == LockfileCall(cand, rev)
         IN  /\ cand' = o.cand
             /\ ret' = [NoRet EXCEPT !.op = "as_lockfile_entry",
                                     !.status = o.status, !.entry = o.entry,
                                     !.backend = o.backend,
                                     !.revision_read = o.revision_read]
    /\ UNCHANGED <<calls, builds>>
    /\ UNCHANGED <<pairVars, idVars, pyVars, actVars, distVars, envVars, wsVars>>

\* get_metadata() of a candidate whose lockfile entry is asked for.
LockMetas == {m \in Metas : m.requires_python \in {NoStr, <<"1", "9">>}}

LockGetMetadata == GetMetadataAmong(LockMetas)

\* A caller reads candidate.revision.
GetRevision ==
    /\ \E rev \in Revisions :
         LET r == revision(cand, rev)
         IN  /\ cand' = r.cand
             /\ ret' = [NoRet EXCEPT !.op = "revision", !.status = r.status,
                                     !.entry = [k \in {"revision"} |-> PyS(r.value)],
                                     !.backend = r.backend,
                                     !.revision_read = TRUE]
    /\ UNCHANGED <<calls, builds>>
    /\ UNCHANGED <<pairVars, idVars, pyVars, actVars, distVars, envVars, wsVars>>

(***************************************************************************)
(* Two candidates, compared (lines 115-125).                               *)
(***************************************************************************)
\* hash((self.name, self.version)): equal exactly for equal pairs.
Candidate_hash(self) == <<self.name, self.version>>

Candidate_eq(self, other) ==
    IF is_named(self.req)
    THEN self.name = other.name /\ self.version = other.version
    ELSE self.name = other.name /\ Link_eq(self.link, other.link)

PairCandidates == {c \in InitialCandidates : c.req.extras = <<>>}

PairMetas == {m \in Metas : m.requires_python \in {Empty, <<"1", "9">>}}

NoCmp == [done |-> FALSE, ab |-> FALSE, ba |-> FALSE,
          ha |-> <<None, None>>, hb |-> <<None, None>>]

\* A caller calls get_metadata() on one of the two candidates.
PairGetMetadata ==
    /\ \E i \in {1, 2} :
         \E in \in {x \in BuildInputs(pair[i]) : x[3] \in PairMetas \cup {PlainMeta, NoMeta}} :
            pair' = [pair EXCEPT ![i] = get_metadata(@, in[1], in[2], in[3]).cand]
    /\ cmp' = NoCmp
    /\ UNCHANGED <<candVars, idVars, pyVars, actVars, distVars, envVars, wsVars>>

\* The resolver compares the two candidates, both ways, and hashes them.
Compare ==
    /\ cmp' = [done |-> TRUE,
               ab |-> Candidate_eq(pair[1], pair[2]),
               ba |-> Candidate_eq(pair[2], pair[1]),
               ha |-> Candidate_hash(pair[1]),
               hb |-> Candidate_hash(pair[2])]
    /\ UNCHANGED pair
    /\ UNCHANGED <<candVars, idVars, pyVars, actVars, distVars, envVars, wsVars>>

(***************************************************************************)
(* identify() applied to two arguments.                                    *)
(***************************************************************************)
ExtraNames == {"a", "b", "c"}

\* Tuples of distinct extras, as a parsed requirement holds them.
ExtrasTuples ==
    UNION { {x \in [1..n -> ExtraNames] : \A i, j \in 1..n : i # j => x[i] # x[j]} :
              n \in 0..MaxExtras }

IdentifyArgs ==
    { [class |-> cl,
       req |-> [kind |-> k[1], name |-> k[2], version |-> None, extras |-> x,
                editable |-> FALSE,
                url |-> IF k[1] = "named" THEN None ELSE SdistUrl]] :
        cl \in {"Requirement", "Candidate"},
        k \in {<<"named", "foo">>, <<"named", "bar">>, <<"url", "foo">>,
               <<"url", None>>},
        x \in ExtrasTuples }

NoKeys == <<"<unset>", "<unset>">>

\* The resolver asks for the keys of the two arguments.
Identify ==
    /\ idOut = NoKeys
    /\ idOut' = <<identify(idIn[1]), identify(idIn[2])>>
    /\ UNCHANGED idIn
    /\ UNCHANGED <<candVars, pairVars, pyVars, actVars, distVars, envVars, wsVars>>

(***************************************************************************)
(* Environment.python_executable (lines 84-126).                           *)
(*                                                                         *)
(* host.probe[p] is the version get_python_version reports for path p, or  *)
(* "fail" when probing p raises; host.which is shutil.which("python");     *)
(* host.installed lists the versions of the runtimes the Finder            *)
(* enumerates, in order; host.running is the version of sys.executable.    *)
(* python_requires is the set of versions the project accepts.             *)
(***************************************************************************)
PyVersions == {"2.7", "3.6", "3.8"}

ConfiguredPath == "/cfg/bin/python"
WhichPath == "/usr/bin/python"
SysExecutable == "/sys/bin/python"
FinderPaths == <<"/opt/a/python", "/opt/b/python", "/opt/c/python", "/opt/d/python">>

\* PySpecSet.contains
contains(python_requires, version) == version \in python_requires

PyResult(status, path, source, conf, effects) ==
    [status |-> status, path |-> path, source |-> source, config |-> conf,
     effects |-> effects]

\* The index of the first enumerated runtime python_requires accepts, or 0.
FirstInstalled(h) ==
    IF \E i \in DOMAIN h.installed : contains(h.python_requires, h.installed[i])
    THEN CHOOSE i \in DOMAIN h.installed :
           /\ contains(h.python_requires, h.installed[i])
           /\ \A j \in 1..(i - 1) : ~contains(h.python_requires, h.installed[j])
    ELSE 0

\* Lines 113-126: record the interpreter found, or fail.
Chosen(path, source, conf) ==
    IF path # None
    THEN PyResult("ok", path, source,
                  [conf EXCEPT !.python = path, !.saves = @ + 1],
                  {"echo", "write", "save"})
    ELSE PyResult("NoPythonVersion", None, "none", conf, {})

\* Lines 96-112: what `python` refers to, else the runtimes found.
Search(h, conf) ==
    IF h.which # None
    THEN IF h.probe[h.which] = "fail"
         THEN PyResult("ProbeError", None, "which", conf, {})
         ELSE Chosen(h.which, "which", conf)
    ELSE IF FirstInstalled(h) # 0
         THEN Chosen(FinderPaths[FirstInstalled(h)], "finder", conf)
         ELSE IF contains(h.python_requires, h.running)
         THEN Chosen(SysExecutable, "running", conf)
         ELSE Chosen(None, "none", conf)

python_executable(h, conf) ==
    IF Truthy(conf.python) /\ h.probe[conf.python] # "fail"
    THEN PyResult("ok", conf.python, "config", conf, {})
    ELSE Search(h, conf)

Hosts ==
    { [which |-> w, probe |-> pr, installed |-> inst, running |-> run,
       python_requires |-> pyreq] :
        w \in {None, WhichPath},
        pr \in [{ConfiguredPath, WhichPath} -> PyVersions \cup {"fail"}],
        inst \in UNION {[1..n -> PyVersions] : n \in 0..MaxInstalled},
        run \in {"2.7", "3.8"},
        pyreq \in {{"3.6", "3.8"}, {"3.8"}, {"2.7"}, PyVersions} }

NoPyRet == [done |-> FALSE, status |-> "none", path |-> None, source |-> "none",
            effects |-> {},
            before |-> [python |-> None, saves |-> 0, packages_path |-> None],
            memo |-> None]

\* A caller reads environment.python_executable (a cached_property: a value
\* is stored on success and returned from then on).
AccessPythonExecutable ==
    /\ IF cached # None
       THEN /\ pyRet' = [NoPyRet EXCEPT !.done = TRUE, !.status = "ok",
                                        !.path = cached, !.source = "cache",
                                        !.before = config, !.memo = cached]
            /\ UNCHANGED <<config, cached>>
       ELSE LET r == python_executable(host, config)
            IN  /\ pyRet' = [NoPyRet EXCEPT !.done = TRUE, !.status = r.status,
                                            !.path = r.path, !.source = r.source,
                                            !.effects = r.effects,
                                            !.before = config]
                /\ config' = r.config
                /\ cached' = IF r.status = "ok" THEN r.path ELSE None
    /\ UNCHANGED host
    /\ UNCHANGED <<candVars, pairVars, idVars, actVars, distVars, envVars, wsVars>>

(***************************************************************************)
(* The cached properties of one Environment (python_executable,            *)
(* packages_path, marker_environment) and the methods that read them.      *)
(* An Environment is the record of its host, its configuration, the three  *)
(* memoized values and the directories on disk.  Every operation returns   *)
(* the Environment after it, its result, the effects of property bodies    *)
(* that ran (pairs of property and effect) and the properties computed.    *)
(***************************************************************************)
Properties == {"python_executable", "packages_path", "marker_environment"}

project_root == "/proj"
PackagesOverride == "/custom/pkgs"

Got(e, status, value, effects, computed) ==
    [env |-> e, status |-> status, value |-> value, effects |-> effects,
     computed |-> computed]

\* A cached_property that runs the body on every access.
cached_property_recompute(e, name, fresh) ==
    IF fresh.status = "ok"
    THEN [fresh EXCEPT !.env[name] = fresh.value,
                       !.computed = @ \cup {name}]
    ELSE fresh

\* pdm.utils.cached_property: the value stored on the instance is returned
\* when there is one; else the body runs and its value, if it returns one,
\* is stored.
cached_property(e, name, fresh) ==
    IF e[name] # None
    THEN Got(e, "ok", e[name], {}, {})
    ELSE IF fresh.status = "ok"
    THEN [fresh EXCEPT !.env[name] = fresh.value,
                       !.computed = @ \cup {name}]
    ELSE fresh

\* get_python_version(path): the version the interpreter at path reports.
get_python_version(h, path) ==
    IF path \in DOMAIN h.probe THEN h.probe[path]
    ELSE IF path = SysExecutable THEN h.running
    ELSE h.installed[CHOOSE i \in DOMAIN FinderPaths : FinderPaths[i] = path]

\* The version tuple behind a reported version.
version_info(v) ==
    CASE v = "2.7" -> <<2, 7, 18>>
      [] v = "3.6" -> <<3, 6, 9>>
      [] v = "3.8" -> <<3, 8, 1>>

\* ".".join(map(str, version[:2]))
major_minor(version) ==
    LET two == SubSeq(version, 1, 2)
    IN  ToString(two[1]) \o "." \o ToString(two[2])

\* Whether resolving the interpreter probes an interpreter at all.
probes(h, conf) == Truthy(conf.python) \/ h.which # None \/ h.installed # <<>>

\* self.python_executable
env_python_executable(e) ==
    cached_property(e, "python_executable",
      LET r == python_executable(e.host, e.config)
      IN  Got([e EXCEPT !.config = r.config], r.status, r.path,
              {<<"python_executable", x>> :
                 x \in r.effects \cup (IF probes(e.host, e.config)
                                       THEN {"probe"} ELSE {})},
              {}))

\* The three subdirectories of an isolated root, and the root's parents.
Subdirs(root) == {root \o "/bin", root \o "/include", root \o "/lib"}

mkdirs(root) == Subdirs(root) \cup {root, project_root \o "/__pypackages__"}

\* Lines 188-198: the body of packages_path.
packages_path(e) ==
    IF e.config.packages_path # None
    THEN Got(e, "ok", e.config.packages_path, {}, {})
    ELSE LET p == env_python_executable(e)
         IN  IF p.status # "ok" THEN p
             ELSE LET v == version_info(get_python_version(p.env.host, p.value))
                      pypackages == project_root \o "/__pypackages__/"
                                      \o major_minor(v)
                  IN  Got([p.env EXCEPT !.dirs = @ \cup mkdirs(pypackages)],
                          "ok", pypackages,
                          p.effects \cup {<<"packages_path", "probe">>,
                                          <<"packages_path", "mkdir">>},
                          p.computed)

\* self.packages_path
env_packages_path(e) == cached_property(e, "packages_path", packages_path(e))

\* Lines 312-315: the body of marker_environment, and the property.
marker_environment(e) ==
    LET p == env_python_executable(e)
    IN  IF p.status # "ok" THEN p
        ELSE Got(p.env, "ok",
                 major_minor(version_info(get_python_version(p.env.host, p.value))),
                 p.effects \cup {<<"marker_environment", "probe">>},
                 p.computed)

env_marker_environment(e) ==
    cached_property(e, "marker_environment", marker_environment(e))

\* Lines 128-139: get_paths, the categories that name the isolated root.
get_paths(e) ==
    LET p == env_packages_path(e)
    IN  IF p.status # "ok" THEN p
        ELSE [p EXCEPT !.value = [purelib |-> p.value \o "/lib",
                                  scripts |-> p.value \o "/bin",
                                  headers |-> p.value \o "/include",
                                  prefix |-> p.value]]

\* Lines 317-326: which(command).  command[6:] is the version asked for.
Commands == {"python", "python3", "pip"}

asked_version(command) == IF command = "python3" THEN "3" ELSE ""

startswith(version, prefix) ==
    \/ prefix = ""
    \/ (prefix = "3" /\ version \in {"3.6", "3.8"})

which(e, command) ==
    IF command # "pip"
    THEN LET p == env_python_executable(e)
         IN  IF p.status # "ok" THEN p
             ELSE LET q == [p EXCEPT !.effects = @ \cup {<<"which", "probe">>}]
                  IN  IF startswith(get_python_version(p.env.host, p.value),
                                    asked_version(command))
                      THEN q
                      ELSE [q EXCEPT !.value = "/usr/bin/" \o command]
    ELSE Got(e, "ok", "/usr/bin/" \o command, {}, {})

\* The Environment of the current state.
ThisEnv ==
    [host |-> host, config |-> config, python_executable |-> cached,
     packages_path |-> packages, marker_environment |-> markers, dirs |-> dirs]

Memo(e) == [P \in Properties |-> e[P]]

NoEnvRet ==
    [done |-> FALSE, op |-> "none", prop |-> "none", status |-> "none",
     value |-> None, effects |-> {}, computed |-> {},
     before |-> [P \in Properties |-> None],
     after |-> [P \in Properties |-> None]]

\* The state after an operation that returned r, and its record.
Returned(op, prop, r) ==
    /\ config' = r.env.config
    /\ cached' = r.env.python_executable
    /\ packages' = r.env.packages_path
    /\ markers' = r.env.marker_environment
    /\ dirs' = r.env.dirs
    /\ envRet' = [done |-> TRUE, op |-> op, prop |-> prop, status |-> r.status,
                  value |-> r.value, effects |-> r.effects,
                  computed |-> r.computed,
                  before |-> Memo(ThisEnv), after |-> Memo(r.env)]
    /\ UNCHANGED <<host, pyRet>>

\* A caller reads environment.packages_path.
AccessPackagesPath ==
    /\ Returned("packages_path", "packages_path", env_packages_path(ThisEnv))
    /\ UNCHANGED <<candVars, pairVars, idVars, actVars, distVars, wsVars>>

\* A caller reads environment.marker_environment.
AccessMarkerEnvironment ==
    /\ Returned("marker_environment", "marker_environment",
                env_marker_environment(ThisEnv))
    /\ UNCHANGED <<candVars, pairVars, idVars, actVars, distVars, wsVars>>

\* A caller calls environment.get_paths().
GetPaths ==
    /\ Returned("get_paths", "packages_path", get_paths(ThisEnv))
    /\ UNCHANGED <<candVars, pairVars, idVars, actVars, distVars, wsVars>>

\* A caller calls environment.which(command).
Which ==
    /\ \E command \in Commands :
         Returned("which", IF command = "pip" THEN "none" ELSE "python_executable",
                  which(ThisEnv, command))
    /\ UNCHANGED <<candVars, pairVars, idVars, actVars, distVars, wsVars>>

(***************************************************************************)
(* Environment.activate (lines 141-173).  An Environment is named by its   *)
(* packages_path; a hook holds "host" or the Environment that patched it.  *)
(***************************************************************************)
Envs == {"/p1/__pypackages__/3.8", "/p2/__pypackages__/3.6"}

purelib(e) == e \o "/lib"
scripts(e) == e \o "/bin"
python_root(e) == IF e = "/p1/__pypackages__/3.8" THEN "/opt/py38/bin" ELSE "/opt/py36/bin"

HostHooks ==
    [working_set |-> "host", evaluate_marker |-> "host", misc_is_local |-> "host",
     req_uninstall_is_local |-> "host", site_packages |-> "/usr/lib/site-packages"]

\* Lines 146-168: the values saved on entry, and the process state after it.
Frame(e, env, hk) ==
    [ env |-> e,
      environ |-> env,
      old_ws |-> hk.working_set,
      old_sitepackages |-> hk.site_packages,
      is_local |-> hk.misc_is_local,
      evaluate_marker |-> hk.evaluate_marker,
      before |-> [environ |-> env, hooks |-> hk] ]

entered_environ(e, env) ==
    [ PYTHONPATH |-> IF env.PYTHONPATH # NoStr /\ env.PYTHONPATH # <<>>
                     THEN <<purelib(e)>> \o env.PYTHONPATH
                     ELSE <<purelib(e)>>,
      PATH |-> <<python_root(e), scripts(e)>> \o env.PATH ]

entered_hooks(e) ==
    [working_set |-> e, evaluate_marker |-> e, misc_is_local |-> e,
     req_uninstall_is_local |-> e, site_packages |-> purelib(e)]

\* Lines 170-173, then temp_environ's restore: the body returned.
exited(f, env, hk) ==
    [ environ |-> f.environ,
      hooks |-> [working_set |-> f.old_ws, evaluate_marker |-> f.evaluate_marker,
                 misc_is_local |-> f.is_local, req_uninstall_is_local |-> f.is_local,
                 site_packages |-> f.old_sitepackages] ]

\* The body raised: the generator ends at the yield of line 169, and only
\* temp_environ's own finally clause runs.
raised(f, env, hk) ==
    [ environ |-> f.environ, hooks |-> hk ]

NoExit == [how |-> "none",
           before |-> [environ |-> [PYTHONPATH |-> NoStr, PATH |-> <<>>],
                       hooks |-> HostHooks],
           after |-> [environ |-> [PYTHONPATH |-> NoStr, PATH |-> <<>>],
                      hooks |-> HostHooks]]

\* `with environment.activate():` is entered.
Enter ==
    /\ Len(stack) < MaxDepth
    /\ \E e \in Envs :
         /\ stack' = Append(stack, Frame(e, environ, hooks))
         /\ environ' = entered_environ(e, environ)
         /\ hooks' = entered_hooks(e)
    /\ UNCHANGED lastExit
    /\ UNCHANGED <<candVars, pairVars, idVars, pyVars, distVars, envVars, wsVars>>

\* The body of the innermost scope returns.
ExitNormally ==
    /\ stack # <<>>
    /\ LET f == stack[Len(stack)]
           x == exited(f, environ, hooks)
       IN  /\ environ' = x.environ
           /\ hooks' = x.hooks
           /\ lastExit' = [how |-> "return", before |-> f.before, after |-> x]
    /\ stack' = SubSeq(stack, 1, Len(stack) - 1)
    /\ UNCHANGED <<candVars, pairVars, idVars, pyVars, distVars, envVars, wsVars>>

\* The body of the innermost scope raises an error.
ExitByError ==
    /\ stack # <<>>
    /\ LET f == stack[Len(stack)]
           x == raised(f, environ, hooks)
       IN  /\ environ' = x.environ
           /\ hooks' = x.hooks
           /\ lastExit' = [how |-> "raise", before |-> f.before, after |-> x]
    /\ stack' = SubSeq(stack, 1, Len(stack) - 1)
    /\ UNCHANGED <<candVars, pairVars, idVars, pyVars, distVars, envVars, wsVars>>

(***************************************************************************)
(* get_requirements_from_dist (lines 30-55) and the editable path of       *)
(* Candidate.get_dependencies_from_metadata (lines 182-191).               *)
(*                                                                         *)
(* A key of the dependency map is a sequence of tokens: an extra name, ":" *)
(* and a marker, spaces; the empty sequence is the key of the unconditional*)
(* dependencies.  The map is the sequence of its items, in dict order.     *)
(***************************************************************************)
\* str.partition(":"): what precedes the first ":", and what follows it.
RECURSIVE partition(_)
partition(k) ==
    IF k = <<>> THEN <<(<<>>), (<<>>)>>
    ELSE IF k[1] = ":" THEN <<(<<>>), Tail(k)>>
    ELSE LET p == partition(Tail(k))
         IN  <<(<<k[1]>> \o p[1]), p[2]>>

\* str.strip(): without the spaces at both ends.
RECURSIVE lstrip(_)
lstrip(t) == IF t # <<>> /\ t[1] = " " THEN lstrip(Tail(t)) ELSE t

RECURSIVE rstrip(_)
rstrip(t) ==
    IF t # <<>> /\ t[Len(t)] = " " THEN rstrip(SubSeq(t, 1, Len(t) - 1)) ELSE t

strip(t) == rstrip(lstrip(t))

\* The string a sequence of tokens spells.
RECURSIVE text(_)
text(t) == IF t = <<>> THEN "" ELSE t[1] \o text(Tail(t))

\* pkg_resources.safe_extra: lower case.
safe_extra(extra) == IF extra = "Extra1" THEN "extra1" ELSE extra

\* `x in seq`
In(x, seq) == \E i \in DOMAIN seq : seq[i] = x

\* Requirement.as_line() of a dependency that was given the marker.
as_line(r, marker) == IF marker = "" THEN r ELSE r \o "; " \o marker

\* Lines 38-51: one pass over the items of the map.
RECURSIVE scan(_, _, _, _)
scan(items, extras, result, extras_in_metadata) ==
    IF items = <<>>
    THEN [result |-> result, extras_in_metadata |-> extras_in_metadata]
    ELSE LET extra == items[1].key
             reqs == items[1].reqs
         IN  IF extra = <<>>
             THEN scan(Tail(items), extras, result \o reqs, extras_in_metadata)
             ELSE LET p == partition(extra)
                      new_extra == text(strip(p[1]))
                      marker == text(p[2])
                  IN  scan(Tail(items), extras,
                           IF new_extra = "" \/ In(safe_extra(new_extra), extras)
                           THEN result \o [i \in DOMAIN reqs |->
                                             as_line(reqs[i], marker)]
                           ELSE result,
                           Append(extras_in_metadata, new_extra))

\* [e for e in seq if e not in other]
RECURSIVE not_in(_, _)
not_in(seq, other) ==
    IF seq = <<>> THEN <<>>
    ELSE (IF In(seq[1], other) THEN <<>> ELSE <<seq[1]>>)
         \o not_in(Tail(seq), other)

\* The body of get_requirements_from_dist: the lines, and the extras the
\* warning names (none: no warning).
get_requirements_from_dist(dep_map, extras) ==
    LET r == scan(dep_map, extras, <<>>, <<>>)
        extras_not_found == not_in(extras, r.extras_in_metadata)
    IN  [result |-> r.result, warning |-> extras_not_found]

\* functools.lru_cache: a call with arguments seen before is answered from
\* the cache and the body does not run.
lru_cached(cache, dep_map, extras) ==
    IF extras \in DOMAIN cache
    THEN [result |-> cache[extras], warning |-> <<>>, hit |-> TRUE,
          cache |-> cache]
    ELSE LET r == get_requirements_from_dist(dep_map, extras)
         IN  [result |-> r.result, warning |-> r.warning, hit |-> FALSE,
              cache |-> [x \in DOMAIN cache \cup {extras} |->
                           IF x = extras THEN r.result ELSE cache[x]]]

\* The keys a requires.txt may hold, each with its dependencies.
DepKeys ==
    { [key |-> <<>>, reqs |-> <<"a">>],
      [key |-> <<"extra1">>, reqs |-> <<"b">>],
      [key |-> <<"extra1", ":", "M">>, reqs |-> <<"c">>],
      [key |-> <<":", "M">>, reqs |-> <<"d">>],
      [key |-> <<"Extra1">>, reqs |-> <<"e">>],
      [key |-> <<" ", "extra2", " ">>, reqs |-> <<"f", "g">>] }

DepMaps ==
    UNION { {m \in [1..n -> DepKeys] : \A i, j \in 1..n : i # j => m[i] # m[j]} :
              n \in 0..MaxKeys }

\* The extras a requirement asks for (req.extras or ()).
RequestedExtras ==
    { <<>>, <<"extra1">>, <<"extra2">>, <<"Extra1">>, <<"extra2", "extra1">> }

NoCache == [x \in {} |-> <<>>]

NoDistRet == [done |-> FALSE, extras |-> <<>>, result |-> <<>>,
              warning |-> <<>>, hit |-> FALSE, status |-> "none"]

\* The resolver calls get_dependencies_from_metadata() on an editable
\* candidate of the built distribution: get_metadata() returns the cached
\* metadata, then get_requirements_from_dist is called through its cache.
GetDependenciesFromMetadata ==
    /\ \E extras \in RequestedExtras :
         LET r == lru_cached(lru, dist, extras)
         IN  /\ lru' = r.cache
             /\ distRet' = [done |-> TRUE, extras |-> extras,
                            result |-> r.result, warning |-> r.warning,
                            hit |-> r.hit, status |-> "ok"]
    /\ UNCHANGED dist
    /\ UNCHANGED <<candVars, pairVars, idVars, pyVars, actVars, envVars, wsVars>>

(***************************************************************************)
(* WorkingSet (environment.py lines 38-70).                                *)
(*                                                                         *)
(* A distribution found under the library path has a key (its project name *)
(* in lower case) and a version; it is editable when only an egg-link      *)
(* leads to it, and compatible when it fits the interpreter the WorkingSet *)
(* is built for.  site lists the distributions in the order the path is    *)
(* scanned.                                                                *)
(***************************************************************************)
DistKeys == {"foo", "bar"}
DistVersions == <<"1.0", "2.0">>

Dists ==
    [key : DistKeys, version : Range(DistVersions), editable : BOOLEAN,
     compatible : BOOLEAN]

\* The names a caller may look up.
LookupKeys == {"foo", "bar", "baz", "Foo"}

\* str.lower()
lower(k) == IF k = "Foo" THEN "foo" ELSE k

\* dist.hashcmp orders by version, then by precedence: a regular install
\* comes before a development one of the same version.
Newer(a, b) ==
    LET va == CHOOSE i \in DOMAIN DistVersions : DistVersions[i] = a.version
        vb == CHOOSE i \in DOMAIN DistVersions : DistVersions[i] = b.version
    IN  va > vb \/ (va = vb /\ ~a.editable /\ b.editable)

\* dists.sort(key=hashcmp, reverse=True) after appending dist.
RECURSIVE sorted_in(_, _)
sorted_in(dist_, dists) ==
    IF dists = <<>> THEN <<dist_>>
    ELSE IF dists[1] = dist_ THEN dists
    ELSE IF Newer(dist_, dists[1]) THEN <<dist_>> \o dists
    ELSE <<dists[1]>> \o sorted_in(dist_, Tail(dists))

\* pkg_resources.Environment(paths, python=python): the broad pass.  It
\* follows egg-links, drops what does not fit the interpreter, and keeps for
\* each key the distributions found, newest first.
RECURSIVE pkg_resources_Environment(_)
pkg_resources_Environment(found) ==
    IF found = <<>> THEN [k \in {} |-> <<>>]
    ELSE LET d == found[Len(found)]
             rest == pkg_resources_Environment(SubSeq(found, 1, Len(found) - 1))
         IN  IF ~d.compatible THEN rest
             ELSE [k \in DOMAIN rest \cup {d.key} |->
                     IF k = d.key
                     THEN sorted_in(d, IF k \in DOMAIN rest THEN rest[k] ELSE <<>>)
                     ELSE rest[k]]

\* WorkingSet.add(dist) of pkg_resources: a key that is present is kept.
pkg_ws_add(by_key, d) ==
    IF d.key \in DOMAIN by_key THEN by_key
    ELSE [k \in DOMAIN by_key \cup {d.key} |->
            IF k = d.key THEN d ELSE by_key[k]]

\* pkg_resources.WorkingSet(paths): the strict registry.  It does not
\* follow egg-links, and the first distribution found for a key stays.
RECURSIVE pkg_resources_WorkingSet(_)
pkg_resources_WorkingSet(found) ==
    IF found = <<>> THEN [k \in {} |-> <<>>]
    ELSE LET d == found[Len(found)]
             rest == pkg_resources_WorkingSet(SubSeq(found, 1, Len(found) - 1))
         IN  IF d.editable THEN rest ELSE pkg_ws_add(rest, d)

\* Environment.__getitem__ of pkg_resources: the distributions of a project,
\* by its lower-case name; none gives the empty list.
env_getitem(env, k) ==
    IF lower(k) \in DOMAIN env THEN env[lower(k)] ELSE <<>>

KeyError == [key |-> "<KeyError>", version |-> None, editable |-> FALSE,
             compatible |-> FALSE]

\* Lines 50-55.
WorkingSet_getitem(self, k) ==
    LET rv == env_getitem(self.env, k)
    IN  IF rv # <<>> THEN rv[1] ELSE KeyError

\* Lines 60-62: the keys of the broad pass that have a distribution.
WorkingSet_iter(self) ==
    {k \in DOMAIN self.env : env_getitem(self.env, k) # <<>>}

\* Lines 57-58.
WorkingSet_len(self) == Cardinality(DOMAIN self.env)

\* A construction that leaves the strict registry as it found it.
add_editable_dists_nothing(self) == self

\* Lines 64-70: every key of the broad pass the strict registry lacks is
\* added to it with the distribution a lookup gives.
RECURSIVE add_all(_, _, _)
add_all(self, by_key, missing_keys) ==
    IF missing_keys = {} THEN by_key
    ELSE LET k == CHOOSE x \in missing_keys : TRUE
         IN  add_all(self, pkg_ws_add(by_key, WorkingSet_getitem(self, k)),
                     missing_keys \ {k})

add_editable_dists(self) ==
    LET missing_keys == {k \in WorkingSet_iter(self) : k \notin DOMAIN self.pkg_ws}
    IN  [self EXCEPT !.pkg_ws = add_all(self, self.pkg_ws, missing_keys)]

\* Lines 41-48.
WorkingSet(found) ==
    add_editable_dists([env |-> pkg_resources_Environment(found),
                        pkg_ws |-> pkg_resources_WorkingSet(found)])

Sites ==
    UNION { {f \in [1..n -> Dists] : \A i, j \in 1..n : i # j => f[i] # f[j]} :
              n \in 0..MaxDists }

\* No WorkingSet yet; a constructed one is held as <<WorkingSet>>.
NoWs == <<>>
NoWsRet == [op |-> "none", key |-> None, status |-> "none", value |-> KeyError,
            keys |-> {}, len |-> 0]

\* environment.get_working_set() (lines 305-310) builds a WorkingSet over
\* the library path.
GetWorkingSet ==
    /\ ws' = <<WorkingSet(site)>>
    /\ wsRet' = [NoWsRet EXCEPT !.op = "init", !.status = "ok"]
    /\ UNCHANGED site
    /\ UNCHANGED <<candVars, pairVars, idVars, pyVars, actVars, distVars, envVars>>

\* working_set[key]
WsGetItem ==
    /\ ws # NoWs
    /\ \E k \in LookupKeys :
         LET rv == WorkingSet_getitem(ws[1], k)
         IN  wsRet' = [NoWsRet EXCEPT !.op = "getitem", !.key = k,
                                      !.status = IF rv = KeyError THEN "KeyError"
                                                 ELSE "ok",
                                      !.value = rv]
    /\ UNCHANGED <<site, ws>>
    /\ UNCHANGED <<candVars, pairVars, idVars, pyVars, actVars, distVars, envVars>>

\* list(working_set) and len(working_set)
WsIterate ==
    /\ ws # NoWs
    /\ wsRet' = [NoWsRet EXCEPT !.op = "iter", !.status = "ok",
                                !.keys = WorkingSet_iter(ws[1]),
                                !.len = WorkingSet_len(ws[1])]
    /\ UNCHANGED <<site, ws>>
    /\ UNCHANGED <<candVars, pairVars, idVars, pyVars, actVars, distVars, envVars>>

(***************************************************************************)
(* Specifications.  Each one runs one part of the program; the variables   *)
(* of the other parts stay at rest.                                        *)
(***************************************************************************)
RestingCandidate ==
    Candidate(CHOOSE r \in Requirements : is_named(r), None, None, NoLink)
RestingPair == <<RestingCandidate, RestingCandidate>>
RestingArgs ==
    <<[class |-> "Requirement", req |-> RestingCandidate.req],
      [class |-> "Requirement", req |-> RestingCandidate.req]>>
RestingHost == CHOOSE h \in Hosts : TRUE
RestingConfig == [python |-> None, saves |-> 0, packages_path |-> None]
RestingEnviron == [PYTHONPATH |-> NoStr, PATH |-> <<"/usr/bin">>]
RestingDist == <<>>
RestingSite == <<>>

InitMeta ==
    /\ cand \in InitialCandidates
    /\ calls = 0 /\ builds = 0 /\ ret = NoRet
    /\ pair = RestingPair /\ cmp = NoCmp
    /\ idIn = RestingArgs /\ idOut = NoKeys
    /\ host = RestingHost /\ config = RestingConfig
    /\ cached = None /\ pyRet = NoPyRet
    /\ environ = RestingEnviron /\ hooks = HostHooks
    /\ stack = <<>> /\ lastExit = NoExit
    /\ dist = RestingDist /\ lru = NoCache /\ distRet = NoDistRet
    /\ packages = None /\ markers = None /\ dirs = {} /\ envRet = NoEnvRet
    /\ site = RestingSite /\ ws = NoWs /\ wsRet = NoWsRet

NextMeta == GetMetadata
SpecMeta == InitMeta /\ [][NextMeta]_vars

NextRP == GetMetadata \/ GetRequiresPython \/ SetRequiresPython
SpecRP == InitMeta /\ [][NextRP]_vars

NextLock ==
    LockGetMetadata \/ SetMarker \/ AddSection \/ AsLockfileEntry \/ GetRevision
SpecLock == InitMeta /\ [][NextLock]_vars

InitPair ==
    /\ pair \in PairCandidates \X PairCandidates
    /\ cmp = NoCmp
    /\ cand = RestingCandidate
    /\ calls = 0 /\ builds = 0 /\ ret = NoRet
    /\ idIn = RestingArgs /\ idOut = NoKeys
    /\ host = RestingHost /\ config = RestingConfig
    /\ cached = None /\ pyRet = NoPyRet
    /\ environ = RestingEnviron /\ hooks = HostHooks
    /\ stack = <<>> /\ lastExit = NoExit
    /\ dist = RestingDist /\ lru = NoCache /\ distRet = NoDistRet
    /\ packages = None /\ markers = None /\ dirs = {} /\ envRet = NoEnvRet
    /\ site = RestingSite /\ ws = NoWs /\ wsRet = NoWsRet

NextPair == PairGetMetadata \/ Compare
SpecPair == InitPair /\ [][NextPair]_vars

InitId ==
    /\ idIn \in IdentifyArgs \X IdentifyArgs
    /\ idOut = NoKeys
    /\ cand = RestingCandidate
    /\ calls = 0 /\ builds = 0 /\ ret = NoRet
    /\ pair = RestingPair /\ cmp = NoCmp
    /\ host = RestingHost /\ config = RestingConfig
    /\ cached = None /\ pyRet = NoPyRet
    /\ environ = RestingEnviron /\ hooks = HostHooks
    /\ stack = <<>> /\ lastExit = NoExit
    /\ dist = RestingDist /\ lru = NoCache /\ distRet = NoDistRet
    /\ packages = None /\ markers = None /\ dirs = {} /\ envRet = NoEnvRet
    /\ site = RestingSite /\ ws = NoWs /\ wsRet = NoWsRet

NextId == Identify
SpecId == InitId /\ [][NextId]_vars

InitPy ==
    /\ host \in Hosts
    /\ config \in {[python |-> p, saves |-> 0, packages_path |-> None] :
                     p \in {None, ConfiguredPath}}
    /\ cached = None /\ pyRet = NoPyRet
    /\ cand = RestingCandidate
    /\ calls = 0 /\ builds = 0 /\ ret = NoRet
    /\ pair = RestingPair /\ cmp = NoCmp
    /\ idIn = RestingArgs /\ idOut = NoKeys
    /\ environ = RestingEnviron /\ hooks = HostHooks
    /\ stack = <<>> /\ lastExit = NoExit
    /\ dist = RestingDist /\ lru = NoCache /\ distRet = NoDistRet
    /\ packages = None /\ markers = None /\ dirs = {} /\ envRet = NoEnvRet
    /\ site = RestingSite /\ ws = NoWs /\ wsRet = NoWsRet

NextPy == AccessPythonExecutable
SpecPy == InitPy /\ [][NextPy]_vars

InitAct ==
    /\ environ \in {[PYTHONPATH |-> pp, PATH |-> <<"/usr/bin">>] :
                      pp \in {NoStr, <<>>, <<"/host/lib">>}}
    /\ hooks = HostHooks
    /\ stack = <<>> /\ lastExit = NoExit
    /\ dist = RestingDist /\ lru = NoCache /\ distRet = NoDistRet
    /\ packages = None /\ markers = None /\ dirs = {} /\ envRet = NoEnvRet
    /\ site = RestingSite /\ ws = NoWs /\ wsRet = NoWsRet
    /\ cand = RestingCandidate
    /\ calls = 0 /\ builds = 0 /\ ret = NoRet
    /\ pair = RestingPair /\ cmp = NoCmp
    /\ idIn = RestingArgs /\ idOut = NoKeys
    /\ host = RestingHost /\ config = RestingConfig
    /\ cached = None /\ pyRet = NoPyRet

NextAct == Enter \/ ExitNormally \/ ExitByError
SpecAct == InitAct /\ [][NextAct]_vars

\* The hosts an Environment's properties are read on.
EnvHosts ==
    { h \in Hosts : /\ Len(h.installed) <= 1
                    /\ h.python_requires \in {{"3.8"}, PyVersions}
                    /\ \A q \in DOMAIN h.probe : h.probe[q] # "3.6" }

\* Every directory an isolated root may need.
AllDirs ==
    UNION { mkdirs(project_root \o "/__pypackages__/" \o v) : v \in PyVersions }
    \cup Subdirs(PackagesOverride) \cup {PackagesOverride}

InitEnv ==
    /\ host \in EnvHosts
    /\ config \in {[python |-> p, saves |-> 0, packages_path |-> o] :
                     p \in {None, ConfiguredPath}, o \in {None, PackagesOverride}}
    /\ cached = None /\ pyRet = NoPyRet
    /\ packages = None /\ markers = None /\ envRet = NoEnvRet
    /\ dirs \in {{}, AllDirs}
    /\ site = RestingSite /\ ws = NoWs /\ wsRet = NoWsRet
    /\ cand = RestingCandidate
    /\ calls = 0 /\ builds = 0 /\ ret = NoRet
    /\ pair = RestingPair /\ cmp = NoCmp
    /\ idIn = RestingArgs /\ idOut = NoKeys
    /\ environ = RestingEnviron /\ hooks = HostHooks
    /\ stack = <<>> /\ lastExit = NoExit
    /\ dist = RestingDist /\ lru = NoCache /\ distRet = NoDistRet

NextEnv ==
    \/ AccessPythonExecutable
    \/ AccessPackagesPath
    \/ AccessMarkerEnvironment
    \/ GetPaths
    \/ Which
SpecEnv == InitEnv /\ [][NextEnv]_vars

InitDist ==
    /\ dist \in DepMaps
    /\ lru = NoCache /\ distRet = NoDistRet
    /\ cand = RestingCandidate
    /\ calls = 0 /\ builds = 0 /\ ret = NoRet
    /\ pair = RestingPair /\ cmp = NoCmp
    /\ idIn = RestingArgs /\ idOut = NoKeys
    /\ host = RestingHost /\ config = RestingConfig
    /\ cached = None /\ pyRet = NoPyRet
    /\ environ = RestingEnviron /\ hooks = HostHooks
    /\ stack = <<>> /\ lastExit = NoExit
    /\ packages = None /\ markers = None /\ dirs = {} /\ envRet = NoEnvRet
    /\ site = RestingSite /\ ws = NoWs /\ wsRet = NoWsRet

NextDist == GetDependenciesFromMetadata
SpecDist == InitDist /\ [][NextDist]_vars

InitWs ==
    /\ site \in Sites
    /\ ws = NoWs /\ wsRet = NoWsRet
    /\ cand = RestingCandidate
    /\ calls = 0 /\ builds = 0 /\ ret = NoRet
    /\ pair = RestingPair /\ cmp = NoCmp
    /\ idIn = RestingArgs /\ idOut = NoKeys
    /\ host = RestingHost /\ config = RestingConfig
    /\ cached = None /\ pyRet = NoPyRet
    /\ environ = RestingEnviron /\ hooks = HostHooks
    /\ stack = <<>> /\ lastExit = NoExit
    /\ dist = RestingDist /\ lru = NoCache /\ distRet = NoDistRet
    /\ packages = None /\ markers = None /\ dirs = {} /\ envRet = NoEnvRet

NextWs == GetWorkingSet \/ WsGetItem \/ WsIterate
SpecWs == InitWs /\ [][NextWs]_vars

(***************************************************************************)
(* Properties of get_metadata.                                             *)
(***************************************************************************)
\* C2 (as claimed): over any sequence of get_metadata() calls on one
\* candidate Environment.build is invoked at most once, and a call made
\* once metadata is cached returns that cached metadata.
C2_BuildAtMostOnceEver ==
    /\ builds <= 1
    /\ (ret.op = "get_metadata" /\ ret.before # NoMeta)
          => (ret.status = "ok" /\ ret.meta = ret.before)

\* C2 (amended): a get_metadata() call invokes Environment.build at most
\* once; once a call has succeeded, later calls invoke no build, succeed and
\* return the cached metadata, which stays as it was.  Every call made
\* before the first success (each one failed) invoked build once.
C2_IdempotentOnceBuilt ==
    /\ ret.op = "get_metadata" =>
         /\ ret.built <= 1
         /\ ret.before # NoMeta =>
              /\ ret.built = 0
              /\ ret.status = "ok"
              /\ ret.meta = ret.before
              /\ cand.metadata = ret.before
         /\ ret.before = NoMeta => ret.built = 1
    /\ cand.metadata = NoMeta => builds = calls
    /\ builds <= calls

\* C2 (witness): a second call after a successful first one, with one build.
C2_Witness ==
    /\ ret.op = "get_metadata"
    /\ ret.before # NoMeta
    /\ calls = 2
    /\ builds = 1

\* C12: a build whose resolved link is a wheel takes no unpack step and no
\* build-backend step, and when it returns, returns the path of the link's
\* file name inside the wheel cache directory.
C12_WheelNotBuilt ==
    (ret.op = "get_metadata" /\ ret.built = 1 /\ ret.link.is_wheel) =>
      /\ "unpack_source" \notin Range(ret.steps)
      /\ "WheelBuilder" \notin Range(ret.steps)
      /\ "EditableBuilder" \notin Range(ret.steps)
      /\ ret.build_status = "ok" =>
           ret.artifact = "cache/wheels/foo-1.0-py3-none-any.whl"
      /\ ret.build_status # "ok" => ret.artifact = None

\* C12 (witness): the finder resolved a wheel for a named requirement and
\* the build returned its path in the wheel cache.
C12_Witness ==
    /\ ret.op = "get_metadata"
    /\ ret.built = 1
    /\ is_named(cand.req)
    /\ ret.link.is_wheel
    /\ ret.steps = <<"populate_link", "download_wheel">>
    /\ ret.artifact = "cache/wheels/foo-1.0-py3-none-any.whl"

\* C26 (as claimed): after a get_metadata() that returned, identify() of the
\* candidate is a key, not None, however the candidate was constructed.
C26_IdentifiedAfterBuild ==
    (ret.op = "get_metadata" /\ ret.status = "ok") => identify(cand) # None

\* C23: the build of an editable requirement on a local directory takes no
\* download and no unpack step: after link resolution comes the editable
\* build backend alone, run in the requirement's own directory, and a build
\* that returns, returns the path of that backend's artifact there.
C23_EditableLocalInPlace ==
    (ret.op = "get_metadata" /\ ret.built = 1
       /\ cand.req.editable /\ is_local_dir(cand.req)) =>
      /\ "download_wheel" \notin Range(ret.steps)
      /\ "unpack_source" \notin Range(ret.steps)
      /\ ret.steps = <<"populate_link", "EditableBuilder">>
      /\ ret.link = Link(cand.req.url, NoStr, FALSE)
      /\ ret.build_status \in {"ok", "BuildBackendError"}
      /\ ret.build_status = "ok" => ret.artifact = "/pkg/foo.egg-info"
      /\ ret.build_status # "ok" => ret.artifact = None

\* C23 (witness): an editable local directory was built in place and the
\* egg-info directory inside the checkout came back.
C23_Witness ==
    /\ ret.op = "get_metadata"
    /\ ret.built = 1
    /\ cand.req.editable /\ is_local_dir(cand.req)
    /\ cand.req.url = "file:///pkg"
    /\ ret.status = "ok"
    /\ ret.steps = <<"populate_link", "EditableBuilder">>
    /\ ret.artifact = "/pkg/foo.egg-info"

\* The candidate's name, version and link are what they were before the call.
Untouched ==
    /\ cand.metadata = NoMeta
    /\ cand.name = ret.was.name
    /\ cand.version = ret.was.version
    /\ cand.link = ret.was.link

\* C13 (as claimed): get_metadata() on an editable requirement that is
\* neither a local directory nor a VCS location fails with
\* RequirementError, and leaves metadata unset and name, version and link
\* as they were.
C13_UnsupportedEditableFails ==
    (ret.op = "get_metadata" /\ unsupported_editable(cand.req)) =>
      /\ ret.status = "RequirementError"
      /\ Untouched

\* C14: after a successful get_metadata() the name and the version are set:
\* one that was unset is the metadata's (the name is then the requirement's
\* name too), one that was set is as before; the link is the link of the
\* install request the build used.
C14_PopulatedAfterSuccess ==
    (ret.op = "get_metadata" /\ ret.status = "ok") =>
      /\ Truthy(cand.name)
      /\ Truthy(cand.version)
      /\ Truthy(ret.was.name) =>
           /\ cand.name = ret.was.name
           /\ cand.req.name = ret.was.req_name
      /\ ~Truthy(ret.was.name) =>
           /\ cand.name = ret.meta.name
           /\ cand.req.name = ret.meta.name
      /\ Truthy(ret.was.version) => cand.version = ret.was.version
      /\ ~Truthy(ret.was.version) => cand.version = ret.meta.version
      /\ ret.built = 1 => (cand.link = ret.link /\ ret.link # NoLink)
      /\ ret.built = 0 => cand.link = ret.was.link
      /\ cand.link = cand.ireq_link

\* C14 (witness): a URL candidate without name or version was built: both
\* are the metadata's now, and the requirement has the name.
C14_Witness ==
    /\ ret.op = "get_metadata"
    /\ ret.status = "ok"
    /\ ret.built = 1
    /\ ret.was.name = None
    /\ ret.was.version = None
    /\ cand.name = "foo"
    /\ cand.req.name = "foo"
    /\ cand.version = "2.0"
    /\ cand.link = ret.link

\* A sequence without a repeated element.
NoRepeat(seq) == \A i, j \in DOMAIN seq : i # j => seq[i] # seq[j]

Last(seq) == seq[Len(seq)]

\* C17: when the build of a get_metadata() call fails, the call fails with
\* the error of the step that failed, that step is the last one taken and
\* no step was taken twice, the metadata stays unset and name, version and
\* link are as before; every call made while no call has succeeded builds.
C17_BuildFailurePropagates ==
    ret.op = "get_metadata" =>
      /\ ret.build_status \in BuildErrors =>
           /\ ret.status = ret.build_status
           /\ ret.meta = NoMeta
           /\ Untouched
           /\ ret.built = 1
           /\ NoRepeat(ret.steps)
           /\ ret.status = DistributionNotFound => ret.steps = <<"populate_link">>
           /\ ret.status = "FetchError" =>
                /\ ret.fail = "unpack"
                /\ Last(ret.steps) \in {"download_wheel", "unpack_source"}
           /\ ret.status = "HashMismatch" =>
                /\ ret.fail = "hash"
                /\ Last(ret.steps) \in {"download_wheel", "unpack_source"}
           /\ ret.status = "BuildBackendError" =>
                /\ ret.fail = "builder"
                /\ Last(ret.steps) \in {"WheelBuilder", "EditableBuilder"}
      /\ ret.before = NoMeta => ret.built = 1
      /\ cand.metadata = NoMeta => builds = calls

\* C17 (witness): two calls failed on a hash mismatch, each after a build
\* of its own, and the candidate is as it was constructed.
C17_Witness ==
    /\ ret.op = "get_metadata"
    /\ ret.status = "HashMismatch"
    /\ ret.built = 1
    /\ calls = 2
    /\ builds = 2
    /\ cand.metadata = NoMeta

(***************************************************************************)
(* Properties of requires_python.                                          *)
(***************************************************************************)
Declares(link) == link.requires_python \notin {NoStr, Empty}

\* ">=N,<N+1" for a string N of digits, else the string itself.
HalfOpen(x) ==
    IF isdigit(x)
    THEN <<">", "=">> \o x \o <<",", "<">> \o IntToStr(int(x) + 1)
    ELSE x

\* C7: requires_python resolves in priority order: a set override (even the
\* empty string) is returned as it is and nothing else is read; otherwise a
\* constraint the link declares is used and the metadata is not read;
\* otherwise the metadata's constraint is used.  A candidate with no link
\* has no metadata either, and its getter fails.
C7_PriorityOrder ==
    ret.op = "requires_python" =>
      /\ cand.requires_python_ # NoStr =>
           /\ ret.status = "ok"
           /\ ret.str = cand.requires_python_
           /\ ret.consulted = {"override"}
      /\ (cand.requires_python_ = NoStr /\ cand.link # NoLink /\ Declares(cand.link)) =>
           /\ ret.status = "ok"
           /\ ret.str = HalfOpen(cand.link.requires_python)
           /\ ret.consulted = {"link"}
      /\ (cand.requires_python_ = NoStr /\ cand.link # NoLink /\ ~Declares(cand.link)) =>
           /\ ret.status = "ok"
           /\ cand.metadata # NoMeta =>
                /\ ret.consulted = {"link", "metadata"}
                /\ (cand.metadata.style # "bare"
                    /\ cand.metadata.requires_python \notin {NoStr, Empty, UNKNOWN})
                     => ret.str = HalfOpen(cand.metadata.requires_python)
           /\ cand.metadata = NoMeta => ret.str = Empty
      /\ (cand.requires_python_ = NoStr /\ cand.link = NoLink) =>
           /\ cand.metadata = NoMeta
           /\ ret.status = "AttributeError"

\* C7 (witness): no override, the link declares ">=3" and the metadata
\* declares "9": the link's constraint is returned.
C7_Witness ==
    /\ ret.op = "requires_python"
    /\ cand.requires_python_ = NoStr
    /\ cand.link.requires_python = GE3
    /\ cand.metadata.requires_python = <<"9">>
    /\ ret.str = GE3

\* C8: when the result comes from the metadata, a bare integer N is
\* returned as ">=N,<N+1" ("3" as ">=3,<4", "9" as ">=9,<10", "19" as
\* ">=19,<20"), an absent, empty or "UNKNOWN" value as the empty string, and
\* the result is never "UNKNOWN" nor a bare integer.
C8_MetadataNormalized ==
    (ret.op = "requires_python" /\ "metadata" \in ret.consulted) =>
      LET md == cand.metadata
          declared == IF md.style = "bare" THEN NoStr ELSE md.requires_python
      IN  /\ declared = <<"3">> => ret.str = <<">", "=", "3", ",", "<", "4">>
          /\ declared = <<"9">> => ret.str = <<">", "=", "9", ",", "<", "1", "0">>
          /\ declared = <<"1", "9">>
               => ret.str = <<">", "=", "1", "9", ",", "<", "2", "0">>
          /\ declared \in {NoStr, Empty, UNKNOWN} => ret.str = Empty
          /\ ret.str # UNKNOWN
          /\ ~isdigit(ret.str)

\* C8 (witness): metadata declaring "9" was read and ">=9,<10" returned.
C8_Witness ==
    /\ ret.op = "requires_python"
    /\ "metadata" \in ret.consulted
    /\ cand.metadata.requires_python = <<"9">>
    /\ ret.str = <<">", "=", "9", ",", "<", "1", "0">>

(***************************************************************************)
(* Properties of as_lockfile_entry.                                        *)
(***************************************************************************)
\* C9 (as claimed): no key of the entry maps to an absent or empty value: no
\* marker key without a marker, no editable key for a non-editable
\* candidate, no sections or extras key for empty ones, and no name or
\* version key for a candidate whose name or version is unset.
C9_NoFalsyField ==
    ret.op = "as_lockfile_entry" =>
      /\ \A k \in DOMAIN ret.entry : PyTruthy(ret.entry[k])
      /\ ~Truthy(cand.marker) => "marker" \notin DOMAIN ret.entry
      /\ ~cand.req.editable => "editable" \notin DOMAIN ret.entry
      /\ cand.sections = <<>> => "sections" \notin DOMAIN ret.entry
      /\ cand.req.extras = <<>> => "extras" \notin DOMAIN ret.entry
      /\ cand.name = None => "name" \notin DOMAIN ret.entry
      /\ cand.version = None => "version" \notin DOMAIN ret.entry

SourceKeys == {"git", "revision", "path", "url"}

\* C10: the source keys of an entry are those of the requirement's kind and
\* no others: the vcs type mapped to the repo, and revision, for a VCS
\* candidate; path alone for a local path; url alone for a URL; none for a
\* named candidate.
C10_SourceKeysExclusive ==
    ret.op = "as_lockfile_entry" =>
      LET e == ret.entry
          src == DOMAIN e \cap SourceKeys
      IN  /\ is_vcs(cand.req) =>
               /\ src = {"git", "revision"}
               /\ e["git"] = PyS(req_repo(cand.req))
               /\ e["revision"].s \in Revisions
          /\ cand.req.kind \in {"localdir", "localfile"} =>
               /\ src = {"path"}
               /\ e["path"] = PyS(req_path(cand.req))
          /\ cand.req.kind = "url" =>
               /\ src = {"url"}
               /\ e["url"] = PyS(cand.req.url)
          /\ is_named(cand.req) => src = {}

\* C10 (witness): the entry of a VCS candidate, with its revision.
C10_Witness ==
    /\ ret.op = "as_lockfile_entry"
    /\ is_vcs(cand.req)
    /\ "revision" \in DOMAIN ret.entry

\* C11: reading revision on a candidate whose requirement is not a VCS
\* requirement fails with AttributeError, invokes no version-control
\* backend and stores nothing; as_lockfile_entry on such a candidate does
\* not read revision, invokes no backend and does not fail.
C11_RevisionGuard ==
    ~is_vcs(cand.req) =>
      /\ cand.revision_ = None
      /\ ret.op = "revision" =>
           /\ ret.status = "AttributeError"
           /\ ret.backend = 0
      /\ ret.op = "as_lockfile_entry" =>
           /\ ~ret.revision_read
           /\ ret.backend = 0
           /\ ret.status = "ok"

\* C11 (witness): revision was read on a built candidate of a local
\* directory, and failed.
C11_Witness ==
    /\ ret.op = "revision"
    /\ is_local_dir(cand.req)
    /\ cand.metadata # NoMeta
    /\ ret.status = "AttributeError"

(***************************************************************************)
(* Properties of candidate equality.                                       *)
(***************************************************************************)
\* C3 (as claimed): a candidate whose requirement is named and one whose
\* requirement is not named, sharing a name, are never equal, whichever
\* side is asked.
C3_NeverConflated ==
    (/\ cmp.done
     /\ is_named(pair[1].req)
     /\ ~is_named(pair[2].req)
     /\ Truthy(pair[1].name)
     /\ pair[1].name = pair[2].name)
      => (~cmp.ab /\ ~cmp.ba)

\* C24 (as claimed): two candidates that compare equal, asked either way,
\* have the same hash, before and after either of them has been built.
C24_HashFollowsEquality ==
    cmp.done => ((cmp.ab \/ cmp.ba) => cmp.ha = cmp.hb)

\* C25 (as claimed): no operation on a candidate (get_metadata, a read of
\* requires_python or revision, as_lockfile_entry, a change of marker or
\* sections) changes the candidate's hash.
C25_HashStable ==
    [][Candidate_hash(cand') = Candidate_hash(cand)]_vars

(***************************************************************************)
(* Properties of identify.                                                 *)
(***************************************************************************)
Known(x) == x.req.name # None

\* C4: an argument whose name is unknown yields None; one with a name and no
\* extras yields the bare name; two arguments with the same name yield the
\* same key exactly when their extras are the same set, whatever the order.
C4_IdentifyKey ==
    idOut # NoKeys =>
      /\ \A i \in {1, 2} :
           /\ ~Known(idIn[i]) => idOut[i] = None
           /\ Known(idIn[i]) => idOut[i] # None
           /\ (Known(idIn[i]) /\ idIn[i].req.extras = <<>>)
                => idOut[i] = idIn[i].req.name
      /\ (Known(idIn[1]) /\ Known(idIn[2]) /\ idIn[1].req.name = idIn[2].req.name)
           => ((idOut[1] = idOut[2])
                 <=> (Range(idIn[1].req.extras) = Range(idIn[2].req.extras)))

\* C4 (witness): "foo" with extras (b, a) and with extras (a, b) both
\* yield "foo[a,b]".
C4_Witness ==
    /\ idIn[1].req.extras = <<"b", "a">>
    /\ idIn[2].req.extras = <<"a", "b">>
    /\ idIn[1].class = "Candidate"
    /\ idOut = <<"foo[a,b]", "foo[a,b]">>

(***************************************************************************)
(* Properties of python_executable.                                        *)
(***************************************************************************)
\* An interpreter is usable when probing it reports a version that
\* python_requires accepts.
Usable(h, p) == h.probe[p] # "fail" /\ contains(h.python_requires, h.probe[p])

\* The interpreter the four-step chain of the claim selects.
ChainChoice(h, conf) ==
    IF Truthy(conf.python) /\ h.probe[conf.python] # "fail"
    THEN [source |-> "config", path |-> conf.python]
    ELSE IF h.which # None /\ Usable(h, h.which)
    THEN [source |-> "which", path |-> h.which]
    ELSE IF FirstInstalled(h) # 0
    THEN [source |-> "finder", path |-> FinderPaths[FirstInstalled(h)]]
    ELSE IF contains(h.python_requires, h.running)
    THEN [source |-> "running", path |-> SysExecutable]
    ELSE [source |-> "none", path |-> None]

\* C5 (as claimed): a first access returns the interpreter of the first
\* source of the chain that yields a usable one: the configured path if it
\* probes, else `python` on the search path if usable, else the first
\* enumerated runtime python_requires accepts, else the running interpreter
\* if python_requires accepts it.
C5_PriorityChain ==
    (pyRet.done /\ pyRet.source # "cache"
       /\ ChainChoice(host, pyRet.before).source # "none")
      => /\ pyRet.status = "ok"
         /\ pyRet.source = ChainChoice(host, pyRet.before).source
         /\ pyRet.path = ChainChoice(host, pyRet.before).path

\* C28 (as claimed): whenever an access of python_executable returns, by
\* whichever step of the chain or from the stored value, the version of the
\* interpreter returned is one python_requires accepts.
C28_ReturnedSatisfiesRequires ==
    (pyRet.done /\ pyRet.status = "ok") =>
      contains(host.python_requires, get_python_version(host, pyRet.path))

\* C6 (as claimed): when no source of the chain yields a usable interpreter
\* the access fails with NoPythonVersion, the configuration is as it was and
\* nothing was saved.
C6_ExhaustionFails ==
    (pyRet.done /\ pyRet.source # "cache"
       /\ ChainChoice(host, pyRet.before).source = "none")
      => /\ pyRet.status = "NoPythonVersion"
         /\ config = pyRet.before
         /\ "save" \notin pyRet.effects

(***************************************************************************)
(* Properties of activate.                                                 *)
(***************************************************************************)
\* C1 (as claimed): when a scope has closed, by return or by error, the
\* environment variables and every patched hook are what they were just
\* before the scope was entered.
C1_RestoredOnExit ==
    lastExit.how # "none" => lastExit.after = lastExit.before

(***************************************************************************)
(* Properties of get_requirements_from_dist.                               *)
(***************************************************************************)
\* The extra name and the marker a key of the map spells.
KeyExtra(k) == text(strip(partition(k)[1]))
KeyMarker(k) == text(partition(k)[2])

\* An extra is requested when a requested name is the same extra name
\* under the normalization of extra names.
Requested(name, extras) ==
    \E i \in DOMAIN extras : safe_extra(extras[i]) = safe_extra(name)

\* The lines the claim expects: in map order, the unconditional entries
\* (with the marker of a marker-only key) and the entries of the keys whose
\* extra is requested, each with the marker of its key.
RECURSIVE Expected(_, _)
Expected(items, extras) ==
    IF items = <<>> THEN <<>>
    ELSE LET k == items[1].key
             lines == [i \in DOMAIN items[1].reqs |->
                         IF KeyMarker(k) = "" THEN items[1].reqs[i]
                         ELSE items[1].reqs[i] \o "; " \o KeyMarker(k)]
         IN  (IF KeyExtra(k) = "" \/ Requested(KeyExtra(k), extras)
              THEN lines ELSE <<>>)
             \o Expected(Tail(items), extras)

\* C15 (as claimed): the result of the extraction is, in map order, every
\* unconditional entry and every entry of a key whose extra is requested,
\* with the key's marker attached, and nothing else.
C15_ExactlyRequested ==
    distRet.done => distRet.result = Expected(dist, distRet.extras)

\* The requested extras that no key of the map names.
Undeclared(items, extras) ==
    { extras[i] : i \in { j \in DOMAIN extras :
        \A n \in DOMAIN items : KeyExtra(items[n].key) # extras[j] } }

\* C16 (as claimed): every call that requests an extra no key of the map
\* names, a repeated one as well as the first, warns, names exactly those
\* extras, and returns the list.
C16_WarnsEveryCall ==
    (distRet.done /\ Undeclared(dist, distRet.extras) # {}) =>
      /\ Range(distRet.warning) = Undeclared(dist, distRet.extras)
      /\ distRet.status = "ok"

\* The key names an extra that inclusion takes for the requested extra e.
Matches(k, e) == KeyExtra(k) # "" /\ safe_extra(KeyExtra(k)) = e

\* C27 (as claimed): when the body of the extraction runs, a requested extra
\* is named in the warning exactly when no key of the map matches it under
\* the comparison inclusion uses, so an extra whose dependencies were
\* included is not reported missing.
C27_WarningAgreesWithInclusion ==
    (distRet.done /\ ~distRet.hit) =>
      \A i \in DOMAIN distRet.extras :
         In(distRet.extras[i], distRet.warning)
           <=> ~\E n \in DOMAIN dist : Matches(dist[n].key, distRet.extras[i])

(***************************************************************************)
(* Properties of the activation scope and of the cached properties.        *)
(***************************************************************************)
\* C18 (as claimed): at no time are two activation scopes open.
C18_OneScopeAtATime == Len(stack) <= 1

C20_SubdirsExist ==
    (envRet.done /\ envRet.op = "packages_path" /\ envRet.status = "ok") =>
      /\ envRet.value =
           IF config.packages_path # None THEN config.packages_path
           ELSE project_root \o "/__pypackages__/" \o get_python_version(host, cached)
      /\ Subdirs(envRet.value) \subseteq dirs

\* C22 (as claimed): while an activation scope is open, PYTHONPATH is the
\* isolated purelib path in front of the PYTHONPATH the scope found (alone
\* when it found none), PATH is the interpreter's directory, the isolated
\* scripts directory, then the PATH it found, and the installed-packages
\* registry, the marker-evaluation hook and both is_local predicates are
\* those of the scope's Environment.
C22_ScopeState ==
    stack # <<>> =>
      LET f == stack[Len(stack)]
          prior == f.before.environ
      IN  /\ environ.PYTHONPATH =
               IF prior.PYTHONPATH = NoStr \/ prior.PYTHONPATH = <<>>
               THEN <<f.env \o "/lib">>
               ELSE <<f.env \o "/lib">> \o prior.PYTHONPATH
          /\ environ.PATH = <<python_root(f.env), f.env \o "/bin">> \o prior.PATH
          /\ hooks.working_set = f.env
          /\ hooks.evaluate_marker = f.env
          /\ hooks.misc_is_local = f.env
          /\ hooks.req_uninstall_is_local = f.env

(***************************************************************************)
(* Properties of the WorkingSet.                                           *)
(***************************************************************************)
\* C21: once a WorkingSet is constructed, every key it iterates over is in
\* the strict registry, every entry the strict pass had found is the entry
\* it found, a lookup of a key it iterates over returns a distribution of
\* that key, and a lookup of a name no distribution on the path carries
\* raises KeyError.
C21_EditablesMerged ==
    ws # NoWs =>
      /\ \A k \in WorkingSet_iter(ws[1]) : k \in DOMAIN ws[1].pkg_ws
      /\ \A k \in DOMAIN pkg_resources_WorkingSet(site) :
            /\ k \in DOMAIN ws[1].pkg_ws
            /\ ws[1].pkg_ws[k] = pkg_resources_WorkingSet(site)[k]
      /\ \A k \in DOMAIN ws[1].pkg_ws :
            /\ ws[1].pkg_ws[k].key = k
            /\ \E i \in DOMAIN site : site[i] = ws[1].pkg_ws[k]
      /\ (wsRet.op = "getitem" /\ wsRet.key \in WorkingSet_iter(ws[1])) =>
            /\ wsRet.status = "ok"
            /\ wsRet.value.key = wsRet.key
      /\ (wsRet.op = "getitem"
            /\ \A i \in DOMAIN site : site[i].key # lower(wsRet.key)) =>
            wsRet.status = "KeyError"
      /\ wsRet.op = "iter" =>
            /\ wsRet.len = Cardinality(wsRet.keys)
            /\ wsRet.keys =
                 {site[i].key : i \in {j \in DOMAIN site : site[j].compatible}}

\* C21 (witness): foo is installed in development mode only, bar regularly;
\* the registry holds both and a lookup of foo returned the editable one.
C21_Witness ==
    /\ ws # NoWs
    /\ Len(site) = 2
    /\ \A i \in DOMAIN site :
         /\ site[i].compatible
         /\ site[i].editable <=> site[i].key = "foo"
    /\ DOMAIN ws[1].pkg_ws = {"foo", "bar"}
    /\ wsRet.op = "getitem" /\ wsRet.key = "foo"
    /\ wsRet.status = "ok" /\ wsRet.value.editable
=============================================================================
